---- MODULE Spec2Model ----
(***************************************************************************)
(* The CRUD scaffolding generators of the olympus repository:              *)
(*   "zeus" : src/scripts/generate-crud.js  (backend + Angular artifacts)  *)
(*   "lib"  : src/unnamed/part_000          (library artifacts)            *)
(* The two write disjoint sets of files, so a behaviour runs one of them.  *)
(* Texts are TLA+ strings; the JavaScript string methods the generators    *)
(* use are defined below character by character.                           *)
(***************************************************************************)
EXTENDS Integers, Sequences, FiniteSets, TLC

(***************************************************************************)
(* JavaScript string primitives                                            *)
(***************************************************************************)
LowerLetters == "abcdefghijklmnopqrstuvwxyz"
UpperLetters == "ABCDEFGHIJKLMNOPQRSTUVWXYZ"
WhiteSpace == {" ", "\n", "\t", "\r"}

\* s.charAt(i-1): the i-th character, "" outside the string
charAt(s, i) == IF i >= 1 /\ i <= Len(s) THEN SubSeq(s, i, i) ELSE ""

\* s.slice(i-1): the text from the i-th character on
slice(s, i) == SubSeq(s, i, Len(s))

\* s.indexOf(sub) + 1: the first position where sub occurs, 0 when it does not
indexOf(s, sub) ==
  LET hits == {i \in 1..(Len(s) - Len(sub) + 1) : SubSeq(s, i, i + Len(sub) - 1) = sub}
  IN IF hits = {} THEN 0 ELSE CHOOSE i \in hits : \A j \in hits : i <= j

\* s.includes(sub)
includes(s, sub) == indexOf(s, sub) # 0

\* s.replace(pat, rep) with a string pattern: the first occurrence only
replace(s, pat, rep) ==
  LET i == indexOf(s, pat)
  IN IF i = 0 THEN s
     ELSE SubSeq(s, 1, i - 1) \o rep \o SubSeq(s, i + Len(pat), Len(s))

isUpper(c) == c # "" /\ includes(UpperLetters, c)

lowerChar(c) ==
  IF isUpper(c) THEN charAt(LowerLetters, indexOf(UpperLetters, c)) ELSE c

upperChar(c) ==
  IF c # "" /\ includes(LowerLetters, c)
  THEN charAt(UpperLetters, indexOf(LowerLetters, c)) ELSE c

RECURSIVE toLowerCase(_)
toLowerCase(s) ==
  IF s = "" THEN "" ELSE lowerChar(charAt(s, 1)) \o toLowerCase(slice(s, 2))

RECURSIVE toUpperCase(_)
toUpperCase(s) ==
  IF s = "" THEN "" ELSE upperChar(charAt(s, 1)) \o toUpperCase(slice(s, 2))

RECURSIVE trimStart(_)
trimStart(s) ==
  IF s # "" /\ charAt(s, 1) \in WhiteSpace THEN trimStart(slice(s, 2)) ELSE s

RECURSIVE trimEnd(_)
trimEnd(s) ==
  IF s # "" /\ charAt(s, Len(s)) \in WhiteSpace
  THEN trimEnd(SubSeq(s, 1, Len(s) - 1)) ELSE s

\* s.trim()
trim(s) == trimEnd(trimStart(s))

\* s.split(sep) for a one-character separator; "".split(sep) is <<"">>
RECURSIVE split(_, _)
split(s, sep) ==
  LET i == indexOf(s, sep)
  IN IF i = 0 THEN <<s>>
     ELSE <<SubSeq(s, 1, i - 1)>> \o split(slice(s, i + 1), sep)

\* the number of positions at which sub occurs in s
occurrences(s, sub) ==
  Cardinality({i \in 1..(Len(s) - Len(sub) + 1) : SubSeq(s, i, i + Len(sub) - 1) = sub})

\* s.startsWith(p)
startsWith(s, p) == Len(p) <= Len(s) /\ SubSeq(s, 1, Len(p)) = p

(***************************************************************************)
(* Name conversions                                                        *)
(***************************************************************************)
\* generate-crud.js toPascalCase, part_000 toPascalCase
toPascalCase(str) == toUpperCase(charAt(str, 1)) \o slice(str, 2)

\* generate-crud.js toCamelCase, part_000 toCamelCase
toCamelCase(str) == toLowerCase(charAt(str, 1)) \o slice(str, 2)

\* str.replace(/([A-Z])/g, '_$1')
RECURSIVE underscoreCapitals(_)
underscoreCapitals(s) ==
  IF s = "" THEN ""
  ELSE (IF isUpper(charAt(s, 1)) THEN "_" \o charAt(s, 1) ELSE charAt(s, 1))
       \o underscoreCapitals(slice(s, 2))

\* generate-crud.js toSnakeCase
toSnakeCase(str) ==
  LET t == toLowerCase(underscoreCapitals(str))
  IN IF startsWith(t, "_") THEN slice(t, 2) ELSE t

(***************************************************************************)
(* Field specification parsers                                             *)
(***************************************************************************)
\* `const [name, type] = field.trim().split(':')`: type is undefined when the
\* token holds no ':'
hasType(field) == Len(split(trim(field), ":")) >= 2
rawName(field) == split(trim(field), ":")[1]
rawType(field) == split(trim(field), ":")[2]

\* generate-crud.js parseFields, the switch on cleanType.toLowerCase()
zeusFinalType(cleanType) ==
  CASE toLowerCase(cleanType) = "string" -> "string"
    [] toLowerCase(cleanType) = "number" -> "number"
    [] toLowerCase(cleanType) = "boolean" -> "boolean"
    [] toLowerCase(cleanType) = "date" -> "Date"
    [] OTHER -> cleanType

zeusDecorator(cleanType) ==
  CASE toLowerCase(cleanType) = "string" -> "@Column()"
    [] toLowerCase(cleanType) = "number" -> "@Column({ type: \"int\" })"
    [] toLowerCase(cleanType) = "boolean" -> "@Column({ type: \"boolean\" })"
    [] toLowerCase(cleanType) = "date" -> "@Column({ type: \"timestamp\" })"
    [] OTHER -> "@Column()"

\* generate-crud.js parseFields, `if (isOptional) { ... }`
zeusNullable(decorator) ==
  replace(replace(decorator, ")", ", { nullable: true })"), "@Column(,", "@Column(")

\* generate-crud.js parseFields, one token that has a type
zeusParseField(field) ==
  LET type       == rawType(field)
      isOptional == includes(type, "?")
      cleanType  == replace(type, "?", "")
      decorator  == zeusDecorator(cleanType)
  IN [name       |-> trim(rawName(field)),
      type       |-> zeusFinalType(cleanType),
      isOptional |-> isOptional,
      decorators |-> <<IF isOptional THEN zeusNullable(decorator) ELSE decorator>>]

\* generate-crud.js parseFields: `type.includes` throws a TypeError on a token
\* without ':'
zeusParseThrows(fieldsString) ==
  \E i \in 1..Len(split(fieldsString, ",")) : ~hasType(split(fieldsString, ",")[i])

zeusParseFields(fieldsString) ==
  LET tokens == split(fieldsString, ",")
  IN [i \in 1..Len(tokens) |-> zeusParseField(tokens[i])]

\* part_000 parseFields, one token: `type || 'string'` covers a missing and an
\* empty type
libParseField(field) ==
  LET name == rawName(field)
  IN [name       |-> replace(name, "?", ""),
      type       |-> IF hasType(field) /\ rawType(field) # "" THEN rawType(field)
                     ELSE "string",
      isOptional |-> includes(name, "?")]

\* libParseFields returning the fields last token first
libParseFieldsReversed(fieldsString) ==
  LET tokens == split(fieldsString, ",")
  IN [i \in 1..Len(tokens) |-> libParseField(tokens[Len(tokens) + 1 - i])]

libParseFields(fieldsString) ==
  LET tokens == split(fieldsString, ",")
  IN [i \in 1..Len(tokens) |-> libParseField(tokens[i])]

(***************************************************************************)
(* part_000 type tables.  typeMap is an object literal, so typeMap[key]    *)
(* also finds the properties every object inherits; the value is only ever *)
(* interpolated into a template, so it is kept as the text it renders to.  *)
(***************************************************************************)
TypeScriptTypeMap ==
  [string |-> "string", number |-> "number", boolean |-> "boolean", date |-> "Date",
   uuid |-> "string", text |-> "string", int |-> "number", float |-> "number",
   decimal |-> "number"]

TypeORMTypeMap ==
  [string |-> "varchar", number |-> "numeric", boolean |-> "boolean",
   date |-> "timestamp", uuid |-> "uuid", text |-> "text", int |-> "int",
   float |-> "float", decimal |-> "decimal"]

ObjectPrototype ==
  [constructor |-> "function Object() { [native code] }"]

\* typeMap[key] || fallback
typeMapLookup(typeMap, key, fallback) ==
  IF key \in DOMAIN typeMap THEN typeMap[key]
  ELSE IF key \in DOMAIN ObjectPrototype THEN ObjectPrototype[key]
  ELSE fallback

getTypeScriptType(type) == typeMapLookup(TypeScriptTypeMap, toLowerCase(type), "string")

getTypeORMType(type) == typeMapLookup(TypeORMTypeMap, toLowerCase(type), "varchar")

\* `${flag}` of a boolean
boolText(flag) == IF flag THEN "true" ELSE "false"

(***************************************************************************)
(* generate-crud.js emitters.  An artifact is kept as the values its       *)
(* template interpolates, each field's lines as the text emitted for it.   *)
(***************************************************************************)
generateEntity(entityName, fields) ==
  [class  |-> toPascalCase(entityName),
   table  |-> toSnakeCase(toPascalCase(entityName)),
   fields |-> [i \in 1..Len(fields) |->
                [name   |-> fields[i].name,
                 column |-> fields[i].decorators[1],
                 decl   |-> fields[i].name \o ": " \o fields[i].type
                            \o (IF fields[i].isOptional THEN " | null" ELSE "") \o ";"]]]

generateModule(entityName) == [class |-> toPascalCase(entityName) \o "Module"]

generateService(entityName, fields) ==
  [class      |-> toPascalCase(entityName) \o "Service",
   repository |-> toCamelCase(entityName) \o "Repository"]

generateController(entityName) ==
  [class   |-> toPascalCase(entityName) \o "Controller",
   route   |-> toSnakeCase(toPascalCase(entityName)),
   service |-> toCamelCase(entityName) \o "Service"]

zeusSkipsField(field) == includes(field.name, "id")

zeusValidators(field) ==
  <<"@IsNotEmpty()">>
  \o (IF field.type = "number" THEN <<"@IsNumber()">> ELSE <<>>)
  \o (IF field.type = "string" THEN <<"@IsString()">> ELSE <<>>)
  \o (IF field.type = "boolean" THEN <<"@IsBoolean()">> ELSE <<>>)

zeusDtoField(field) ==
  IF field.isOptional
  THEN [name |-> field.name, validators |-> <<>>,
        decl |-> field.name \o "?: " \o field.type \o ";"]
  ELSE [name |-> field.name, validators |-> zeusValidators(field),
        decl |-> field.name \o ": " \o field.type \o ";"]

generateCreateDto(entityName, fields) ==
  LET kept == SelectSeq(fields, LAMBDA f : ~zeusSkipsField(f))
  IN [class  |-> "Create" \o toPascalCase(entityName) \o "Dto",
      fields |-> [i \in 1..Len(kept) |-> zeusDtoField(kept[i])]]

generateUpdateDto(entityName) ==
  [class |-> "Update" \o toPascalCase(entityName) \o "Dto"]

generateAngularService(entityName, fields) ==
  [class  |-> toPascalCase(entityName) \o "Service",
   apiUrl |-> "/api/" \o toCamelCase(entityName)]

generateInterface(entityName, fields) ==
  [interface |-> "I" \o toPascalCase(entityName),
   fields    |-> [i \in 1..Len(fields) |->
                   [name |-> fields[i].name,
                    decl |-> fields[i].name \o ": " \o fields[i].type
                             \o (IF fields[i].isOptional THEN " | null" ELSE "") \o ";"]]]

zeusColumnType(field) ==
  IF field.type = "Date" THEN "timestamp"
  ELSE IF field.type = "boolean" THEN "boolean"
  ELSE IF field.type = "number" THEN "int"
  ELSE "varchar"

zeusMigrationColumns(fields) ==
  LET kept == SelectSeq(fields, LAMBDA f : ~zeusSkipsField(f))
  IN [i \in 1..Len(kept) |->
       [name |-> kept[i].name, type |-> zeusColumnType(kept[i]),
        isNullable |-> boolText(kept[i].isOptional)]]

\* new Date().toISOString().replace(/[-:T]/g, '').split('.')[0] of the instant
\* `ms` milliseconds into 1970-01-01: YYYYMMDDHHMMSS, the milliseconds dropped
twoDigits(n) == IF n < 10 THEN "0" \o ToString(n) ELSE ToString(n)

isoCompact(ms) ==
  LET seconds == ms \div 1000
  IN "19700101" \o twoDigits((seconds \div 3600) % 24)
     \o twoDigits((seconds \div 60) % 60) \o twoDigits(seconds % 60)

\* generate-crud.js generateMigration; `ms` is what new Date() returned
generateMigration(entityName, fields, ms) ==
  LET timestamp == isoCompact(ms)
  IN [content |->
        [class     |-> "Create" \o toPascalCase(entityName) \o "Table" \o timestamp,
         table     |-> toSnakeCase(toPascalCase(entityName)),
         columns   |-> zeusMigrationColumns(fields),
         dropTable |-> toSnakeCase(toPascalCase(entityName))],
      timestamp |-> timestamp]

(***************************************************************************)
(* part_000 emitters                                                       *)
(***************************************************************************)
libDecl(field) ==
  field.name \o (IF field.isOptional THEN "?" ELSE "") \o ": "
  \o getTypeScriptType(field.type) \o ";"

libInterfaceContent(entityName, fields) ==
  [interface    |-> toPascalCase(entityName),
   fields       |-> [i \in 1..Len(fields) |->
                      [name |-> fields[i].name, decl |-> libDecl(fields[i])]],
   createDto    |-> "Create" \o toPascalCase(entityName) \o "Dto",
   createFields |-> [i \in 1..Len(fields) |->
                      [name |-> fields[i].name, decl |-> libDecl(fields[i])]],
   updateDto    |-> "Update" \o toPascalCase(entityName) \o "Dto",
   updateFields |-> [i \in 1..Len(fields) |->
                      [name |-> fields[i].name, decl |-> libDecl(fields[i])]]]

libServiceContent(entityName) ==
  [class      |-> toPascalCase(entityName) \o "Service",
   repository |-> toCamelCase(entityName) \o "Repository"]

libEntityContent(entityName, fields) ==
  [class  |-> toPascalCase(entityName),
   table  |-> toCamelCase(entityName) \o "s",
   fields |-> [i \in 1..Len(fields) |->
                [name   |-> fields[i].name,
                 column |-> "@Column({ type: '" \o getTypeORMType(fields[i].type)
                            \o "', nullable: " \o boolText(fields[i].isOptional) \o " })",
                 decl   |-> libDecl(fields[i])]]]

libControllerContent(entityName) ==
  [class   |-> toPascalCase(entityName) \o "Controller",
   route   |-> toCamelCase(entityName) \o "s",
   service |-> toCamelCase(entityName) \o "Service"]

\* `timestamp` is what Date.now() returned
libMigrationContent(entityName, fields, timestamp) ==
  [class     |-> "Create" \o toPascalCase(entityName) \o "Table" \o ToString(timestamp),
   name      |-> "Create" \o toPascalCase(entityName) \o "Table" \o ToString(timestamp),
   table     |-> toCamelCase(entityName) \o "s",
   columns   |-> [i \in 1..Len(fields) |->
                   [name |-> fields[i].name, type |-> getTypeORMType(fields[i].type),
                    isNullable |-> boolText(fields[i].isOptional)]],
   dropTable |-> toCamelCase(entityName) \o "s"]

(***************************************************************************)
(* Paths                                                                   *)
(***************************************************************************)
targetPath(entityName) == "apps/zeus/src/app/" \o entityName
migrationPath == "apps/zeus/src/migrations"
interfacePath == "libs/olympus/core/src/lib/models"
modelsIndexPath == "libs/olympus/core/src/lib/models/index.ts"
servicePath == "libs/olympus/core/src/lib/services"
servicesIndexPath == "libs/olympus/core/src/lib/services/index.ts"

directory == "libs/olympus/core/src/lib"
libMigrations == "libs/olympus/core/src/lib/migrations"
\* path.join(directory, '../index.ts')
indexPath == "libs/olympus/core/src/index.ts"

\* the migration's file name, from the object generateMigration returned
zeusMigrationFile(migration, entityName) ==
  migration.timestamp \o "_create_" \o toSnakeCase(toPascalCase(entityName)) \o "_table.ts"

\* libMigrationFile naming the file by a later reading of the clock
libMigrationFileReread(entityName, timestamp) ==
  "Create" \o toPascalCase(entityName) \o "Table" \o ToString(timestamp + 1) \o ".ts"

\* the migration's file name, from the timestamp constant
libMigrationFile(entityName, timestamp) ==
  "Create" \o toPascalCase(entityName) \o "Table" \o ToString(timestamp) \o ".ts"

(***************************************************************************)
(* Manifest (index file) updates                                           *)
(***************************************************************************)
exportLine(entityName) == "export * from './" \o entityName \o "';"
serviceExportLine(entityName) == "export * from './" \o entityName \o ".service';"

modelsPlaceholder == "// Export all model interfaces here"
servicesPlaceholder == "// Export all services here"

\* zeusIndexAppend without the else branch: the index is always overwritten
zeusIndexOverwrite(content, line, placeholder) == line \o "\n"

\* generate-crud.js: the text written to an index file whose text does not
\* include `line`
zeusIndexAppend(content, line, placeholder) ==
  IF trim(content) = "" \/ trim(content) = placeholder
  THEN line \o "\n"
  ELSE content \o line \o "\n"

\* part_000: `const exports = [...]`
libExports(entityName) ==
  <<"export * from './lib/" \o entityName \o ".interface';",
    "export * from './lib/" \o entityName \o ".service';",
    "export * from './lib/" \o entityName \o ".entity';",
    "export * from './lib/" \o entityName \o ".controller';">>

\* libIndexAppend without the presence check
libIndexAppendAlways(indexContent, line) == indexContent \o "\n" \o line

\* part_000: one turn of exports.forEach
libIndexAppend(indexContent, line) ==
  IF ~includes(indexContent, line) THEN indexContent \o "\n" \o line ELSE indexContent

\* part_000: exports.forEach over the first n export lines
RECURSIVE libIndexMerge(_, _, _)
libIndexMerge(indexContent, exports, n) ==
  IF n = 0 THEN indexContent
  ELSE libIndexAppend(libIndexMerge(indexContent, exports, n - 1), exports[n])

(***************************************************************************)
(* Bounds and inputs                                                       *)
(***************************************************************************)
MaxRuns == 2

Programs == {"zeus", "lib"}

Entities == {"userProfile", "Product"}

\* the field specifications given on the command line
FieldSpecs ==
  {"name:string,description?:string,parentId?:string",
   "name:string,price:number,isActive?:boolean",
   "name", "", "name:string,age", "name:",
   "title:string?", "count:number?", "note?:text?",
   "price:number", " price : number ", "price :number",
   "id:uuid,width:int", "body:text,ratio:float,total:decimal",
   "when:date,flag:Boolean", "meta:json", "kind:constructor"}

\* how long after the previous reading of the clock the next one may fall, in ms
TimeSteps == {0, 1000}

ManifestVariants ==
  {"absent", "blank", "placeholder", "other", "noeol", "commented", "present"}

IndexPaths == {modelsIndexPath, servicesIndexPath, indexPath}

\* the first export line a run for `entityName` looks for in the index at `path`
firstLine(path, entityName) ==
  IF path = modelsIndexPath THEN exportLine(entityName)
  ELSE IF path = servicesIndexPath THEN serviceExportLine(entityName)
  ELSE libExports(entityName)[1]

\* the text an index file holds before the first run
seedText(variant, path) ==
  CASE variant = "blank" -> " \n"
    [] variant = "placeholder" ->
         (IF path = servicesIndexPath THEN servicesPlaceholder ELSE modelsPlaceholder)
         \o "\n"
    [] variant = "other" -> firstLine(path, "order") \o "\n"
    [] variant = "noeol" -> firstLine(path, "order")
    [] variant = "commented" -> "// " \o firstLine(path, "userProfile") \o "\n"
    [] variant = "present" -> firstLine(path, "userProfile") \o "\n"

NoFiles == [path \in {} |-> ""]

seedIndex(variant) ==
  IF variant = "absent" THEN NoFiles
  ELSE [path \in IndexPaths |-> seedText(variant, path)]

(***************************************************************************)
(* State                                                                   *)
(***************************************************************************)
VARIABLES
  argFields,    \* process.argv[3], the field specification argument
  prog,         \* the generator the runs execute
  entityName,   \* process.argv[2]
  fieldsString, \* the field specification the run parses
  pc,           \* where the run is
  step,         \* how many artifact files the run has written
  fields,       \* the parsed fields
  now,          \* the latest reading of the clock, in ms
  migration,    \* zeus: what generateMigration returned
  timestamp,    \* lib: what Date.now() returned
  dirs,         \* the directories that exist
  files,        \* the artifact files: path -> content
  index,        \* the index files: path -> text
  err,          \* the error that ended the run, "" when none
  runs,         \* the runs started
  pre,          \* the index files as the run found them
  prev,         \* the entity name of the run before this one, if any
  reads,        \* the readings of the clock in this run
  log           \* the paths written by this run, in order

vars == <<argFields, prog, entityName, fieldsString, pc, step, fields, now, migration,
          timestamp, dirs, files, index, err, runs, pre, prev, reads, log>>

io == <<dirs, files, index>>
locals == <<fields, migration, timestamp>>

\* fs.existsSync(path) ? fs.readFileSync(path) : ''
readIndex(path) == IF path \in DOMAIN index THEN index[path] ELSE ""

NoMigration == [content |-> [class |-> ""], timestamp |-> ""]

Init ==
  /\ argFields \in FieldSpecs
  /\ \E variant \in ManifestVariants : index = seedIndex(variant)
  /\ prog \in Programs
  /\ entityName = ""
  /\ fieldsString = ""
  /\ pc = "idle"
  /\ step = 0
  /\ fields = <<>>
  /\ now = 0
  /\ migration = NoMigration
  /\ timestamp = 0
  /\ dirs = {}
  /\ files = NoFiles
  /\ err = ""
  /\ runs = 0
  /\ pre = index
  /\ prev = <<>>
  /\ reads = 0
  /\ log = <<>>

(***************************************************************************)
(* The run                                                                 *)
(***************************************************************************)
\* part_000: `args[1] || 'name:string,description:string'`
libDefaultFields(arg) == IF arg = "" THEN "name:string,description:string" ELSE arg

\* the process starts: argv is read
Start(e) ==
  /\ pc \in {"idle", "done", "failed"}
  /\ runs < MaxRuns
  /\ runs' = runs + 1
  /\ entityName' = e
  /\ fieldsString' = IF prog = "lib" THEN libDefaultFields(argFields) ELSE argFields
  /\ pc' = "parse"
  /\ step' = 0
  /\ fields' = <<>>
  /\ migration' = NoMigration
  /\ timestamp' = 0
  /\ err' = ""
  /\ pre' = index
  /\ prev' = IF pc = "idle" THEN <<>> ELSE <<entityName>>
  /\ reads' = 0
  /\ log' = <<>>
  /\ UNCHANGED <<argFields, prog, now, io>>

\* `const fields = parseFields(fieldsString)`
Parse ==
  /\ pc = "parse"
  /\ IF prog = "zeus" /\ zeusParseThrows(fieldsString)
     THEN /\ pc' = "failed"
          /\ err' = "TypeError"
          /\ UNCHANGED fields
     ELSE /\ pc' = "mkdir"
          /\ fields' = IF prog = "zeus" THEN zeusParseFields(fieldsString)
                       ELSE libParseFields(fieldsString)
          /\ UNCHANGED err
  /\ UNCHANGED <<argFields, prog, entityName, fieldsString, step, now, migration,
                 timestamp, io, runs, pre, prev, reads, log>>

zeusDirs(e) ==
  {targetPath(e), targetPath(e) \o "/dto", migrationPath, interfacePath, servicePath}

libDirs == {directory, libMigrations}

\* the `if (!fs.existsSync(dir)) fs.mkdirSync(dir, { recursive: true })` block
MkDirs ==
  /\ pc = "mkdir"
  /\ dirs' = dirs \cup (IF prog = "zeus" THEN zeusDirs(entityName) ELSE libDirs)
  /\ pc' = IF prog = "zeus" THEN "write" ELSE "generate"
  /\ UNCHANGED <<argFields, prog, entityName, fieldsString, step, locals, now, files,
                 index, err, runs, pre, prev, reads, log>>

\* part_000: the contents are built, `const timestamp = Date.now()` among them
Generate ==
  /\ pc = "generate"
  /\ \E d \in TimeSteps :
       /\ now' = now + d
       /\ timestamp' = now + d
  /\ reads' = reads + 1
  /\ pc' = "write"
  /\ UNCHANGED <<argFields, prog, entityName, fieldsString, step, fields, migration, io,
                 err, runs, pre, prev, log>>

ZeusArtifacts ==
  <<"entity", "module", "service", "controller", "createDto", "updateDto", "migration",
    "interface", "angularService">>

LibArtifacts == <<"interface", "service", "entity", "controller", "migration">>

zeusFilePath(kind, e, m) ==
  CASE kind = "entity" -> targetPath(e) \o "/" \o e \o ".entity.ts"
    [] kind = "module" -> targetPath(e) \o "/" \o e \o ".module.ts"
    [] kind = "service" -> targetPath(e) \o "/" \o e \o ".service.ts"
    [] kind = "controller" -> targetPath(e) \o "/" \o e \o ".controller.ts"
    [] kind = "createDto" -> targetPath(e) \o "/dto/create-" \o e \o ".dto.ts"
    [] kind = "updateDto" -> targetPath(e) \o "/dto/update-" \o e \o ".dto.ts"
    [] kind = "migration" -> migrationPath \o "/" \o zeusMigrationFile(m, e)
    [] kind = "interface" -> interfacePath \o "/" \o e \o ".ts"
    [] kind = "angularService" -> servicePath \o "/" \o e \o ".service.ts"

zeusFileContent(kind, e, fs, m) ==
  CASE kind = "entity" -> generateEntity(e, fs)
    [] kind = "module" -> generateModule(e)
    [] kind = "service" -> generateService(e, fs)
    [] kind = "controller" -> generateController(e)
    [] kind = "createDto" -> generateCreateDto(e, fs)
    [] kind = "updateDto" -> generateUpdateDto(e)
    [] kind = "migration" -> m.content
    [] kind = "interface" -> generateInterface(e, fs)
    [] kind = "angularService" -> generateAngularService(e, fs)

libFilePath(kind, e, t) ==
  CASE kind = "interface" -> directory \o "/" \o e \o ".interface.ts"
    [] kind = "service" -> directory \o "/" \o e \o ".service.ts"
    [] kind = "entity" -> directory \o "/" \o e \o ".entity.ts"
    [] kind = "controller" -> directory \o "/" \o e \o ".controller.ts"
    [] kind = "migration" -> libMigrations \o "/" \o libMigrationFile(e, t)

libFileContent(kind, e, fs, t) ==
  CASE kind = "interface" -> libInterfaceContent(e, fs)
    [] kind = "service" -> libServiceContent(e)
    [] kind = "entity" -> libEntityContent(e, fs)
    [] kind = "controller" -> libControllerContent(e)
    [] kind = "migration" -> libMigrationContent(e, fs, t)

\* generate-crud.js: the next fs.writeFileSync of an artifact; the migration's
\* write follows `const migration = generateMigration(entityName, fields)`
WriteZeus ==
  /\ pc = "write"
  /\ prog = "zeus"
  /\ LET kind == ZeusArtifacts[step + 1]
     IN \E d \in (IF kind = "migration" THEN TimeSteps ELSE {0}) :
          LET m == IF kind = "migration"
                   THEN generateMigration(entityName, fields, now + d)
                   ELSE migration
              path == zeusFilePath(kind, entityName, m)
          IN /\ now' = now + d
             /\ migration' = m
             /\ reads' = IF kind = "migration" THEN reads + 1 ELSE reads
             /\ files' = (path :> zeusFileContent(kind, entityName, fields, m)) @@ files
             /\ log' = Append(log, path)
  /\ step' = step + 1
  /\ pc' = IF step + 1 = Len(ZeusArtifacts) THEN "modelsIndex" ELSE "write"
  /\ UNCHANGED <<argFields, prog, entityName, fieldsString, fields, timestamp, dirs,
                 index, err, runs, pre, prev>>

\* part_000: the next fs.writeFileSync of an artifact
WriteLib ==
  /\ pc = "write"
  /\ prog = "lib"
  /\ LET kind == LibArtifacts[step + 1]
         path == libFilePath(kind, entityName, timestamp)
     IN /\ files' = (path :> libFileContent(kind, entityName, fields, timestamp)) @@ files
        /\ log' = Append(log, path)
  /\ step' = step + 1
  /\ pc' = IF step + 1 = Len(LibArtifacts) THEN "index" ELSE "write"
  /\ UNCHANGED <<argFields, prog, entityName, fieldsString, locals, now, dirs, index,
                 err, runs, pre, prev, reads>>

\* generate-crud.js: read an index file and write it back with `line` when its
\* text does not include the line
zeusUpdateIndex(path, line, placeholder) ==
  IF ~includes(readIndex(path), line)
  THEN /\ index' = (path :> zeusIndexAppend(readIndex(path), line, placeholder)) @@ index
       /\ log' = Append(log, path)
  ELSE UNCHANGED <<index, log>>

UpdateModelsIndex ==
  /\ pc = "modelsIndex"
  /\ zeusUpdateIndex(modelsIndexPath, exportLine(entityName), modelsPlaceholder)
  /\ pc' = "servicesIndex"
  /\ UNCHANGED <<argFields, prog, entityName, fieldsString, step, locals, now, dirs,
                 files, err, runs, pre, prev, reads>>

UpdateServicesIndex ==
  /\ pc = "servicesIndex"
  /\ zeusUpdateIndex(servicesIndexPath, serviceExportLine(entityName),
                     servicesPlaceholder)
  /\ pc' = "done"
  /\ UNCHANGED <<argFields, prog, entityName, fieldsString, step, locals, now, dirs,
                 files, err, runs, pre, prev, reads>>

\* UpdateIndex placed ahead of the artifact writes
UpdateIndexEarly ==
  /\ pc = "write"
  /\ prog = "lib"
  /\ \A i \in 1..Len(log) : log[i] # indexPath
  /\ index' = (indexPath :> libIndexMerge(readIndex(indexPath), libExports(entityName),
                                          Len(libExports(entityName)))) @@ index
  /\ log' = Append(log, indexPath)
  /\ UNCHANGED <<argFields, prog, entityName, fieldsString, pc, step, locals, now, dirs,
                 files, err, runs, pre, prev, reads>>

\* part_000: read index.ts, add the missing export lines, write it back
UpdateIndex ==
  /\ pc = "index"
  /\ index' = (indexPath :> libIndexMerge(readIndex(indexPath), libExports(entityName),
                                          Len(libExports(entityName)))) @@ index
  /\ log' = Append(log, indexPath)
  /\ pc' = "done"
  /\ UNCHANGED <<argFields, prog, entityName, fieldsString, step, locals, now, dirs,
                 files, err, runs, pre, prev, reads>>

Next ==
  \/ \E e \in Entities : Start(e)
  \/ Parse
  \/ MkDirs
  \/ Generate
  \/ WriteZeus
  \/ WriteLib
  \/ UpdateModelsIndex
  \/ UpdateServicesIndex
  \/ UpdateIndex

Spec == Init /\ [][Next]_vars

(***************************************************************************)
(* Runs on a file system whose writes can fail                             *)
(***************************************************************************)
\* the next fs.writeFileSync of an artifact throws; nothing catches it, so the
\* process ends.  generate-crud.js has called generateMigration by the time the
\* migration's write throws.
WriteFails ==
  /\ pc = "write"
  /\ \E d \in (IF prog = "zeus" /\ ZeusArtifacts[step + 1] = "migration"
               THEN TimeSteps ELSE {0}) :
       /\ now' = now + d
       /\ migration' = IF prog = "zeus" /\ ZeusArtifacts[step + 1] = "migration"
                       THEN generateMigration(entityName, fields, now + d)
                       ELSE migration
  /\ reads' = IF prog = "zeus" /\ ZeusArtifacts[step + 1] = "migration"
              THEN reads + 1 ELSE reads
  /\ pc' = "failed"
  /\ err' = "FileSystemError"
  /\ UNCHANGED <<argFields, prog, entityName, fieldsString, step, fields, timestamp,
                 io, runs, pre, prev, log>>

\* the inputs of the runs with failing writes
FaultyFieldSpecs == {"name:string,price:number,isActive?:boolean"}

InitFaulty == Init /\ argFields \in FaultyFieldSpecs

NextFaulty == Next \/ WriteFails

SpecFaulty == InitFaulty /\ [][NextFaulty]_vars

(***************************************************************************)
(* Reading the state for the properties                                    *)
(***************************************************************************)
\* the export lines the run ensures in the index file at `path`
runExports(path) ==
  IF prog = "zeus" /\ path = modelsIndexPath THEN {exportLine(entityName)}
  ELSE IF prog = "zeus" /\ path = servicesIndexPath THEN {serviceExportLine(entityName)}
  ELSE IF prog = "lib" /\ path = indexPath
       THEN {libExports(entityName)[i] : i \in 1..Len(libExports(entityName))}
  ELSE {}

placeholderOf(path) ==
  IF path = servicesIndexPath THEN servicesPlaceholder ELSE modelsPlaceholder

\* the text of s after / before the first occurrence of marker
afterText(s, marker) == slice(s, indexOf(s, marker) + Len(marker))
beforeText(s, marker) == SubSeq(s, 1, indexOf(s, marker) - 1)

\* the migration files among the paths this run has written
migrationsWritten ==
  {log[i] : i \in {j \in 1..Len(log) :
                     \/ startsWith(log[j], migrationPath \o "/")
                     \/ startsWith(log[j], libMigrations \o "/")}}

\* the timestamp in a migration's file name and in its class name
fileStamp(path) ==
  IF prog = "zeus" THEN beforeText(afterText(path, migrationPath \o "/"), "_create_")
  ELSE beforeText(afterText(path, "Table"), ".ts")

classStamp(class) == afterText(class, "Table")

parsed == pc \notin {"idle", "parse", "failed"}

tokens == split(fieldsString, ",")

\* C1: running the generation twice in a row with the same entity name leaves
\* every index file with the text it had after the first run, and an export
\* line that was absent before a run occurs exactly once after it.
C1_ManifestIdempotent ==
  pc = "done" =>
    /\ prev = <<entityName>> => index = pre
    /\ \A path \in DOMAIN index : \A line \in runExports(path) :
         (path \notin DOMAIN pre \/ ~includes(pre[path], line))
           => occurrences(index[path], line) = 1

C1_Witness ==
  /\ pc = "done"
  /\ prev = <<entityName>>
  /\ \E path \in DOMAIN index :
       /\ runExports(path) # {}
       /\ \A line \in runExports(path) : occurrences(index[path], line) = 1

\* C2 as stated: the text an index file held before the run is a prefix of the
\* text it holds afterwards.
C2_PriorTextIsPrefix ==
  \A path \in DOMAIN pre : startsWith(readIndex(path), pre[path])

\* C2 amended: the prior text is a prefix of the text after the run, except
\* that generate-crud.js replaces a prior text that is blank or only the
\* placeholder comment by the export line and a line separator.
C2_PriorTextKeptUnlessPlaceholder ==
  \A path \in DOMAIN pre :
    \/ startsWith(readIndex(path), pre[path])
    \/ /\ prog = "zeus"
       /\ trim(pre[path]) \in {"", placeholderOf(path)}
       /\ readIndex(path) = firstLine(path, entityName) \o "\n"

C2_Witness ==
  /\ pc = "done"
  /\ prog = "zeus"
  /\ \E path \in DOMAIN pre :
       /\ trim(pre[path]) # ""
       /\ index[path] # pre[path]
       /\ startsWith(index[path], pre[path])

\* C3: when a comma-separated token of the field specification holds no ':',
\* the run fails with an error, no directory is created and no artifact or
\* index file is written.
C3_MalformedRejected ==
  ((\E i \in 1..Len(tokens) : ~includes(tokens[i], ":")) /\ pc \notin {"idle", "parse"})
    => /\ pc = "failed"
       /\ err # ""
       /\ dirs = {}
       /\ files = NoFiles
       /\ index = pre
       /\ log = <<>>

\* whether an emitted property declaration is optional or nullable
declOptional(decl) ==
  \/ includes(decl, " | null")
  \/ LET head == beforeText(decl, ":")
     IN head # "" /\ charAt(head, Len(head)) = "?"

columnNullable(column) == includes(column, "nullable: true")

\* the artifacts this run has written that list fields, by the name of the list
emitted(list) ==
  {files[log[i]] : i \in {j \in 1..Len(log) :
                            log[j] \in DOMAIN files /\ list \in DOMAIN files[log[j]]}}

\* C4: every parsed field is rendered nullable or optional in the data model
\* (value type and column), the create transfer object, the migration column
\* and the client-side interface exactly when its parsed optional flag is
\* true.
C4_OptionalPropagates ==
  parsed =>
    \A i \in 1..Len(fields) :
      /\ \A a \in emitted("fields") : \A j \in 1..Len(a.fields) :
           a.fields[j].name = fields[i].name =>
             /\ declOptional(a.fields[j].decl) = fields[i].isOptional
             /\ "column" \in DOMAIN a.fields[j] =>
                  columnNullable(a.fields[j].column) = fields[i].isOptional
      /\ \A a \in emitted("createFields") : \A j \in 1..Len(a.createFields) :
           a.createFields[j].name = fields[i].name =>
             declOptional(a.createFields[j].decl) = fields[i].isOptional
      /\ \A a \in emitted("columns") : \A j \in 1..Len(a.columns) :
           a.columns[j].name = fields[i].name =>
             a.columns[j].isNullable = boolText(fields[i].isOptional)

\* C5: a '?' after the name and a '?' after the type both yield optional =
\* true, and the emitted name and the type token looked up hold no '?'.
C5_OptionalMarkerEitherSide ==
  parsed =>
    \A i \in 1..Len(fields) :
      /\ includes(tokens[i], "?") => fields[i].isOptional
      /\ ~includes(fields[i].name, "?")
      /\ ~includes(fields[i].type, "?")

upperFirst(name) == upperChar(charAt(name, 1)) \o slice(name, 2)
lowerFirst(name) == lowerChar(charAt(name, 1)) \o slice(name, 2)

\* C6: generated classes are named by the entity name with its first
\* character upper-cased, instances by the name with its first character
\* lower-cased, and the controller route and the table of the data model and
\* of the migration are the instance name followed by "s".
C6_NameDerivation ==
  \A i \in 1..Len(log) :
    log[i] \in DOMAIN files =>
      LET a == files[log[i]]
      IN /\ "class" \in DOMAIN a => includes(a.class, upperFirst(entityName))
         /\ "service" \in DOMAIN a => startsWith(a.service, lowerFirst(entityName))
         /\ "route" \in DOMAIN a => a.route = lowerFirst(entityName) \o "s"
         /\ "table" \in DOMAIN a => a.table = lowerFirst(entityName) \o "s"
         /\ "dropTable" \in DOMAIN a => a.dropTable = lowerFirst(entityName) \o "s"

RecognizedTokens ==
  {"string", "number", "boolean", "date", "uuid", "text", "int", "float", "decimal"}

\* the value type an emitted property declaration declares
declType(decl) == beforeText(replace(afterText(decl, ": "), " | null", ""), ";")

\* the column type a @Column decorator declares; without a `type` the ORM
\* derives varchar for a string property and nothing for a type it does not know
quote(column) == IF includes(column, "type: \"") THEN "\"" ELSE "'"

declaredColumnType(column, decl) ==
  IF includes(column, "type: ")
  THEN beforeText(afterText(column, "type: " \o quote(column)), quote(column))
  ELSE IF declType(decl) = "string" THEN "varchar" ELSE ""

\* a token written as plain name:type, without marker or surrounding space
plain(token) ==
  /\ hasType(token)
  /\ ~includes(token, "?")
  /\ ~includes(token, " ")

\* C7: for a field of a recognized type the column type of the data model
\* equals that of the migration, and the value type of the data model equals
\* that of the transfer object and of the client-side interface.
C7_TypesAgreeAcrossArtifacts ==
  pc = "done" =>
    \A i \in 1..Len(fields) :
      (plain(tokens[i]) /\ rawType(tokens[i]) \in RecognizedTokens) =>
        \A a \in emitted("fields") : \A j \in 1..Len(a.fields) :
          a.fields[j].name = fields[i].name =>
            /\ \A b \in emitted("fields") \cup emitted("createFields") :
                 LET list == IF "createFields" \in DOMAIN b THEN b.createFields
                             ELSE b.fields
                 IN \A k \in 1..Len(list) :
                      list[k].name = fields[i].name =>
                        declType(list[k].decl) = declType(a.fields[j].decl)
            /\ "column" \in DOMAIN a.fields[j] =>
                 \A m \in emitted("columns") : \A k \in 1..Len(m.columns) :
                   m.columns[k].name = fields[i].name =>
                     m.columns[k].type
                       = declaredColumnType(a.fields[j].column, a.fields[j].decl)

\* the documented column of each supported field type
DocumentedColumn ==
  [string |-> "varchar", number |-> "numeric", boolean |-> "boolean",
   date |-> "timestamp", uuid |-> "uuid", text |-> "text", int |-> "int",
   float |-> "float", decimal |-> "decimal"]

\* C8: the type mapping is total and case-insensitive, each recognized token
\* maps to its documented column type, and every other token maps to the
\* string value type with a varchar column.
C8_TypeMappingTable ==
  pc = "done" =>
    \A i \in 1..Len(fields) :
      plain(tokens[i]) =>
        LET token == toLowerCase(rawType(tokens[i]))
            known == token \in RecognizedTokens
        IN /\ \A m \in emitted("columns") : \A k \in 1..Len(m.columns) :
                m.columns[k].name = fields[i].name =>
                  m.columns[k].type
                    = (IF known THEN DocumentedColumn[token] ELSE "varchar")
           /\ \A a \in emitted("fields") : \A j \in 1..Len(a.fields) :
                (a.fields[j].name = fields[i].name /\ ~known) =>
                  declType(a.fields[j].decl) = "string"

\* the field specification without its spaces
RECURSIVE removeSpaces(_)
removeSpaces(s) ==
  IF s = "" THEN ""
  ELSE (IF charAt(s, 1) = " " THEN "" ELSE charAt(s, 1)) \o removeSpaces(slice(s, 2))

resolvedTypes(field) ==
  IF prog = "zeus" THEN <<field.type, zeusColumnType(field), field.decorators>>
  ELSE <<getTypeScriptType(field.type), getTypeORMType(field.type)>>

\* C9: spaces around the name or the type of a token do not change the parsed
\* field: its name carries no surrounding space and its value type and column
\* type are those of the token written without spaces.
C9_WhitespaceInsensitive ==
  parsed =>
    LET bare == IF prog = "zeus" THEN zeusParseFields(removeSpaces(fieldsString))
                ELSE libParseFields(removeSpaces(fieldsString))
    IN \A i \in 1..Len(fields) :
         /\ fields[i].name = bare[i].name
         /\ resolvedTypes(fields[i]) = resolvedTypes(bare[i])

\* C10: a run reads the clock exactly once, and the timestamp in the
\* migration's file name is the timestamp in the migration's class name.
C10_SingleTimestamp ==
  /\ reads <= 1
  /\ pc \in {"modelsIndex", "servicesIndex", "index", "done"} => reads = 1
  /\ \A path \in migrationsWritten :
       fileStamp(path) = classStamp(files[path].class)

C10_Witness ==
  /\ pc = "done"
  /\ reads = 1
  /\ now > 0
  /\ \E path \in migrationsWritten : fileStamp(path) # ""

\* the names of a list of emitted fields, in order
namesOf(list) == [i \in 1..Len(list) |-> list[i].name]

\* whether `sub` is `full` with some entries left out, the order kept
RECURSIVE isSubsequence(_, _)
isSubsequence(sub, full) ==
  IF sub = <<>> THEN TRUE
  ELSE IF full = <<>> THEN FALSE
  ELSE IF Head(sub) = Head(full) THEN isSubsequence(Tail(sub), Tail(full))
  ELSE isSubsequence(sub, Tail(full))

\* every list of fields the run has emitted, as names
emittedLists ==
  {namesOf(a.fields) : a \in emitted("fields")}
    \cup {namesOf(a.createFields) : a \in emitted("createFields")}
    \cup {namesOf(a.updateFields) : a \in emitted("updateFields")}
    \cup {namesOf(a.columns) : a \in emitted("columns")}

\* C11: when every comma-separated token holds a ':', there are as many parsed
\* fields as tokens, the i-th field comes from the i-th token, and every
\* emitter lists the fields it emits in that order.
C11_ParseCountAndOrder ==
  (parsed /\ \A i \in 1..Len(tokens) : includes(tokens[i], ":")) =>
    /\ Len(fields) = Len(tokens)
    /\ \A i \in 1..Len(fields) : startsWith(trimStart(tokens[i]), fields[i].name)
    /\ \A list \in emittedLists : isSubsequence(list, namesOf(fields))

C11_Witness ==
  /\ pc = "done"
  /\ Len(tokens) >= 2
  /\ \A i \in 1..Len(tokens) : includes(tokens[i], ":")
  /\ \E a \in emitted("columns") : Len(a.columns) = Len(tokens)
  /\ \E a \in emitted("fields") : namesOf(a.fields) = namesOf(fields)

\* the create transfer objects and the migrations the run has emitted, as names
createDtoLists ==
  {namesOf(a.createFields) : a \in emitted("createFields")}
    \cup {namesOf(a.fields) :
            a \in {b \in emitted("fields") :
                     "class" \in DOMAIN b /\ startsWith(b.class, "Create")}}

migrationLists == {namesOf(a.columns) : a \in emitted("columns")}

\* C12: the transfer-object and migration emitters leave out a parsed field
\* only when its name is exactly "id"; a field of any other name, also one
\* that merely contains "id", is in the create transfer object and among the
\* migration columns.
C12_ReservedKeyExact ==
  parsed =>
    \A i \in 1..Len(fields) :
      fields[i].name # "id" =>
        \A list \in createDtoLists \cup migrationLists :
          \E j \in 1..Len(list) : list[j] = fields[i].name

\* C13: the route segment the API controller is registered under is the route
\* segment the client-side service sends its requests to.
C13_RouteAgreement ==
  \A c \in emitted("route") : \A a \in emitted("apiUrl") :
    afterText(a.apiUrl, "/api/") = c.route

\* the lines of a text: the pieces between line separators
linesOf(text) ==
  LET pieces == split(text, "\n") IN {pieces[i] : i \in 1..Len(pieces)}

\* C14: after a completed run every export line of the run is in its index
\* file as a complete line of its own.
C14_FullLinePresence ==
  pc = "done" =>
    \A path \in IndexPaths : \A line \in runExports(path) :
      line \in linesOf(readIndex(path))

\* the number of artifact files a run of the program writes
artifactCount == IF prog = "zeus" THEN Len(ZeusArtifacts) ELSE Len(LibArtifacts)

\* C15: an index file is read and written only after every artifact file of
\* the run has been written, each index file is written at most once per run,
\* and when an artifact write fails the run stops with the files written so
\* far on disk and no index file modified.
C15_WriteOrdering ==
  /\ \A i \in 1..Len(log) : (log[i] \in IndexPaths) <=> (i > artifactCount)
  /\ pc \in {"modelsIndex", "servicesIndex", "index"} =>
       (step = artifactCount /\ Len(log) >= artifactCount)
  /\ index # pre => step = artifactCount
  /\ \A i, j \in 1..Len(log) : (i < j /\ log[i] = log[j]) => log[i] \notin IndexPaths
  /\ (pc = "failed" /\ err = "FileSystemError") =>
       /\ index = pre
       /\ step < artifactCount
       /\ Len(log) = step
       /\ \A i \in 1..Len(log) : log[i] \in DOMAIN files

C15_Witness ==
  /\ pc = "failed"
  /\ err = "FileSystemError"
  /\ step >= 2
  /\ prev # <<>>
  /\ index # NoFiles
====
